---------------------------- MODULE Spec2Model ----------------------------
(***************************************************************************)
(* A model of adhanctl: the prayer-time parser and query functions of      *)
(* internal/prayer/times.go, and the `serve` daemon of                     *)
(* cmd/adhanctl/main.go with its ticker, its fetch with retries            *)
(* (internal/api/aladhan.go), its cache (internal/cache/cache.go) and the  *)
(* goroutines of scheduleNotification.                                     *)
(*                                                                         *)
(* Time.  An instant is an integer number of units of 500 ms (the smallest *)
(* duration the code names, the first backoff of fetchWithRetries) of      *)
(* local wall-clock time since 01-01-2024 00:00 in the location of the     *)
(* response.  The location has a fixed offset (no daylight-saving change   *)
(* inside a run), so that time.Date is the proleptic Gregorian calendar.   *)
(*                                                                         *)
(* Strings.  A Go string is a sequence of one-character strings:           *)
(* "12:30" is <<"1", "2", ":", "3", "0">>.                                 *)
(***************************************************************************)
EXTENDS Integers, Sequences, FiniteSets, TLC

-----------------------------------------------------------------------------
(* Durations *)

\* aladhan.go:131  backoff := 500 * time.Millisecond   (the unit of time)
InitialBackoff == 1

Second == 2 * InitialBackoff
Minute == 60 * Second
Hour   == 60 * Minute
Day    == 24 * Hour

\* aladhan.go:151  if backoff > 8*time.Second
MaxBackoff == 8 * Second

\* aladhan.go:18
MaxRetries == 6

\* main.go:341  max(f.interval, 10*time.Second)
MinInterval == 10 * Second

\* main.go:379  prayer.UpcomingEvents(events, now, 24*time.Hour)
Horizon == 24 * Hour

\* Go's builtin max on two durations (main.go:341)
Max(a, b) == IF a > b THEN a ELSE b

\* F applied to the value of x: x is worked out once, before F
With(x, F(_)) == CHOOSE r \in {F(v) : v \in {x}} : TRUE

-----------------------------------------------------------------------------
(* The calendar of package time, as far as time.Date, Day, Month and Year   *)
(* are used by the code.                                                    *)

IsLeap(y) == (y % 4 = 0) /\ ((y % 100 # 0) \/ (y % 400 = 0))

DaysIn(m, y) ==
    IF m = 2 THEN (IF IsLeap(y) THEN 29 ELSE 28)
    ELSE IF m \in {4, 6, 9, 11} THEN 30 ELSE 31

\* days from 01-01-0001 to 01-01-y
DaysBeforeYear(y) ==
    365 * (y - 1) + ((y - 1) \div 4) - ((y - 1) \div 100) + ((y - 1) \div 400)

RECURSIVE DaysBeforeMonth(_, _)
DaysBeforeMonth(m, y) ==
    IF m <= 1 THEN 0 ELSE DaysIn(m - 1, y) + DaysBeforeMonth(m - 1, y)

\* days from 01-01-2024 to the first day of month m (in 1..12) of year y
DaysToMonth(y, m) ==
    DaysBeforeYear(y) - DaysBeforeYear(2024) + DaysBeforeMonth(m, y)

\* time.Date(year, month, day, hour, min, 0, 0, loc): the month is normalised
\* into 1..12 (carrying into the year); day, hour and minute are not range
\* checked, they overflow linearly into the following days, hours and minutes.
TimeDate(year, month, day, hour, min) ==
    With([y |-> year + ((month - 1) \div 12), m |-> ((month - 1) % 12) + 1],
         LAMBDA n : (DaysToMonth(n.y, n.m) + (day - 1)) * Day
                        + hour * Hour + min * Minute)

\* the years a run of the model can be in
Years == 2023 .. 2025

\* the year of day number n, counted from 01-01-0001
YearOfDay(n) ==
    CHOOSE c \in Years : DaysBeforeYear(c) <= n /\ n < DaysBeforeYear(c + 1)

\* the month of day r (from 0) of year y
MonthOfDay(y, r) ==
    CHOOSE c \in 1..12 :
        DaysBeforeMonth(c, y) <= r /\ r < DaysBeforeMonth(c, y) + DaysIn(c, y)

\* t.Year(), t.Month(), t.Day() of an instant
CivilOf(t) ==
    With((t \div Day) + DaysBeforeYear(2024), LAMBDA n :
    With(YearOfDay(n), LAMBDA y :
    With(MonthOfDay(y, n - DaysBeforeYear(y)), LAMBDA m :
        [year |-> y, month |-> m,
         day |-> n - DaysBeforeYear(y) - DaysBeforeMonth(m, y) + 1])))

-----------------------------------------------------------------------------
(* Strings: the functions of packages strings and strconv the parser uses   *)

Digits == <<"0", "1", "2", "3", "4", "5", "6", "7", "8", "9">>

IsDigit(c) == \E i \in 1..10 : Digits[i] = c

DigitVal(c) == (CHOOSE i \in 1..10 : Digits[i] = c) - 1

IsSpace(c) == c \in {" ", "\t", "\n", "\r"}

\* the length of the longest prefix of s without white space
RECURSIVE WordLen(_)
WordLen(s) ==
    IF s = <<>> \/ IsSpace(Head(s)) THEN 0 ELSE 1 + WordLen(Tail(s))

\* strings.Fields(s): the maximal runs of non-space characters
RECURSIVE Fields(_)
Fields(s) ==
    IF s = <<>> THEN <<>>
    ELSE IF IsSpace(Head(s)) THEN Fields(Tail(s))
    ELSE With(WordLen(s), LAMBDA n :
            <<SubSeq(s, 1, n)>> \o With(SubSeq(s, n + 1, Len(s)), Fields))

\* strings.Index(s, c) for a one-character c: the 0-based index of the first
\* c in s, or -1
RECURSIVE IndexFrom(_, _, _)
IndexFrom(s, c, i) ==
    IF i > Len(s) THEN -1
    ELSE IF s[i] = c THEN i - 1
    ELSE IndexFrom(s, c, i + 1)

Index(s, c) == IndexFrom(s, c, 1)

\* strings.TrimSpace(s)
RECURSIVE TrimLeft(_)
TrimLeft(s) == IF s # <<>> /\ IsSpace(Head(s)) THEN TrimLeft(Tail(s)) ELSE s

RECURSIVE TrimRight(_)
TrimRight(s) ==
    IF s # <<>> /\ IsSpace(s[Len(s)]) THEN TrimRight(SubSeq(s, 1, Len(s) - 1)) ELSE s

TrimSpace(s) == TrimRight(TrimLeft(s))

\* strings.Split(s, sep) for a one-character sep: always at least one part
RECURSIVE Split(_, _)
Split(s, sep) ==
    With(Index(s, sep), LAMBDA i :
        IF i < 0 THEN <<s>>
        ELSE <<SubSeq(s, 1, i)>>
                \o With(SubSeq(s, i + 2, Len(s)), LAMBDA rest : Split(rest, sep)))

RECURSIVE DecimalVal(_, _)
DecimalVal(s, acc) ==
    IF s = <<>> THEN acc ELSE DecimalVal(Tail(s), 10 * acc + DigitVal(Head(s)))

\* strconv.Atoi(s) with its error dropped (h, _ := strconv.Atoi(...)): an
\* optional sign and then one or more decimal digits; 0 for anything else
Atoi(s) ==
    LET signed == s # <<>> /\ Head(s) \in {"+", "-"}
        body   == IF signed THEN Tail(s) ELSE s
        ok     == body # <<>> /\ \A i \in 1..Len(body) : IsDigit(body[i])
    IN  IF ~ok THEN 0
        ELSE IF signed /\ Head(s) = "-" THEN 0 - DecimalVal(body, 0)
        ELSE DecimalVal(body, 0)

-----------------------------------------------------------------------------
(* internal/prayer/times.go *)

StandardOrder == <<"Fajr", "Sunrise", "Dhuhr", "Asr", "Maghrib", "Isha">>

\* the zero value of *Event
NoEvent == [Name |-> "", When |-> -1, nil |-> TRUE]

Event(name, when) == [Name |-> name, When |-> when, nil |-> FALSE]

\* times.go:73-79: day, month and year of the parts of the date string
DateOf(dateParts) ==
    IF Len(dateParts) >= 3
    THEN [day |-> Atoi(dateParts[1]), month |-> Atoi(dateParts[2]),
          year |-> Atoi(dateParts[3])]
    ELSE [day |-> 0, month |-> 0, year |-> 0]

\* parseDateTime with the minute left out of time.Date
DateTimeOfHourOnly(d, h, m, now) ==
    IF d.day = 0 \/ d.month = 0 \/ d.year = 0
    THEN With(CivilOf(now), LAMBDA today :
            TimeDate(today.year, today.month, today.day, h, 0))
    ELSE TimeDate(d.year, d.month, d.day, h, 0)

\* times.go:81-88: the instant of hour h and minute m on date d, and on the
\* date of `now` when a part of d is 0
DateTimeOf(d, h, m, now) ==
    IF d.day = 0 \/ d.month = 0 \/ d.year = 0
    THEN With(CivilOf(now), LAMBDA today :
            TimeDate(today.year, today.month, today.day, h, m))
    ELSE TimeDate(d.year, d.month, d.day, h, m)

\* parseDateTime(gregDate, timeStr, loc), with time.Now().In(loc) = now
parseDateTime(gregDate, timeStr, now) ==
    With(Split(timeStr, ":"), LAMBDA parts :
        IF Len(parts) < 2
        THEN [err |-> TRUE, t |-> 0]
        ELSE [err |-> FALSE,
              t   |-> With([d |-> DateOf(Split(gregDate, "-")),
                            h |-> Atoi(parts[1]), m |-> Atoi(parts[2])],
                           LAMBDA v : DateTimeOf(v.d, v.h, v.m, now))])

\* two decimal digits, four decimal digits
Format2(n) == <<Digits[((n \div 10) % 10) + 1], Digits[(n % 10) + 1]>>
Format4(n) == Format2(n \div 100) \o Format2(n % 100)

\* t.Format("02-01-2006")
FormatDMY(t) ==
    With(CivilOf(t), LAMBDA c :
        Format2(c.day) \o <<"-">> \o Format2(c.month) \o <<"-">> \o Format4(c.year))

\* sort.Slice(events, When.Before): for fewer than 12 elements the library
\* runs an insertion sort, which keeps equal instants in their order
RECURSIVE InsertByWhen(_, _)
InsertByWhen(sorted, e) ==
    IF sorted = <<>> THEN <<e>>
    ELSE IF e.When < sorted[Len(sorted)].When
         THEN With(SubSeq(sorted, 1, Len(sorted) - 1), LAMBDA front :
                InsertByWhen(front, e) \o <<sorted[Len(sorted)]>>)
         ELSE sorted \o <<e>>

RECURSIVE SortByWhen(_)
SortByWhen(events) ==
    IF events = <<>> THEN <<>>
    ELSE With(SortByWhen(SubSeq(events, 1, Len(events) - 1)), LAMBDA sorted :
            InsertByWhen(sorted, events[Len(events)]))

\* the first field taken as the token, parenthesis and all
TimeTokenWholeField(tstr) ==
    With(Fields(tstr), LAMBDA tok : IF Len(tok) = 0 THEN <<>> ELSE tok[1])

\* the time-of-day token of one raw timing string (times.go:38-46);
\* <<>> stands for `continue` at len(tok) == 0
TimeToken(tstr) ==
    With(Fields(tstr), LAMBDA tok :
        IF Len(tok) = 0 THEN <<>>
        ELSE IF Index(tok[1], "(") >= 0
             THEN TrimSpace(SubSeq(tok[1], 1, Index(tok[1], "(")))
             ELSE tok[1])

\* the loop of ParseTimes over StandardOrder, from name number k on
RECURSIVE ParseFrom(_, _, _, _)
ParseFrom(k, resp, gregDate, now) ==
    IF k > Len(StandardOrder) THEN <<>>
    ELSE IF StandardOrder[k] \notin DOMAIN resp.Timings
         THEN ParseFrom(k + 1, resp, gregDate, now)
    ELSE IF Len(Fields(resp.Timings[StandardOrder[k]])) = 0
         THEN ParseFrom(k + 1, resp, gregDate, now)
    ELSE With(TimeToken(resp.Timings[StandardOrder[k]]), LAMBDA ts :
         With(parseDateTime(gregDate, ts, now), LAMBDA dt :
            IF dt.err THEN ParseFrom(k + 1, resp, gregDate, now)
            ELSE <<Event(StandardOrder[k], dt.t)>>
                    \o ParseFrom(k + 1, resp, gregDate, now)))

\* ParseTimes without the sort.Slice of times.go:57-59
ParseTimesUnsorted(resp, now) ==
    With(IF resp.GregorianDate = <<>> THEN FormatDMY(now) ELSE resp.GregorianDate,
         LAMBDA gregDate : ParseFrom(1, resp, gregDate, now))

\* ParseTimes(resp, loc), with time.Now().In(loc) = now
ParseTimes(resp, now) ==
    With(IF resp.GregorianDate = <<>> THEN FormatDMY(now) ELSE resp.GregorianDate,
         LAMBDA gregDate : With(ParseFrom(1, resp, gregDate, now), SortByWhen))

\* NextEventAfter(events, after): the loop from index i on, with `best`
RECURSIVE NextEventLoop(_, _, _, _)
NextEventLoop(events, after, i, best) ==
    IF i > Len(events) THEN best
    ELSE IF events[i].When > after /\ (best.nil \/ events[i].When < best.When)
         THEN NextEventLoop(events, after, i + 1, events[i])
         ELSE NextEventLoop(events, after, i + 1, best)

\* NextEventAfter with !Before(after) for After(after)
NextEventAfterNotStrict(events, after) == NextEventLoop(events, after - 1, 1, NoEvent)

NextEventAfter(events, after) == NextEventLoop(events, after, 1, NoEvent)

\* the filter loop of UpcomingEvents
RECURSIVE UpcomingLoop(_, _, _)
UpcomingLoop(events, from, limit) ==
    IF events = <<>> THEN <<>>
    ELSE IF Head(events).When > from /\ Head(events).When < limit
         THEN <<Head(events)>> \o UpcomingLoop(Tail(events), from, limit)
         ELSE UpcomingLoop(Tail(events), from, limit)

\* UpcomingEvents with both ends of the window included
UpcomingEventsInclusive(events, from, within) ==
    With(UpcomingLoop(events, from - 1, from + within + 1), SortByWhen)

\* UpcomingEvents without the sort.Slice of times.go:129-131
UpcomingEventsUnsorted(events, from, within) ==
    UpcomingLoop(events, from, from + within)

UpcomingEvents(events, from, within) ==
    With(UpcomingLoop(events, from, from + within), SortByWhen)

\* the caller's slice after UpcomingEvents(events, ...) returned: `result`
\* grows from nil by append, so it has an array of its own, and sort.Slice
\* permutes `result` only
EventsAfterUpcoming(events) == events


\* the indices of the events of a sequence that carry a name
Named(events, name) == {i \in 1..Len(events) : events[i].Name = name}

\* fmt.Sprintf("%d", n) for n >= 0
RECURSIVE Itoa(_)
Itoa(n) ==
    IF n < 10 THEN <<Digits[n + 1]>>
    ELSE Itoa(n \div 10) \o <<Digits[(n % 10) + 1]>>

\* fmt.Sprintf("%02d", n) for n >= 0
Pad2(n) == IF n < 10 THEN <<"0">> \o Itoa(n) ELSE Itoa(n)

\* the string "passed"
Passed == <<"p", "a", "s", "s", "e", "d">>

\* HumanDuration with %dh%dm for %dh%02dm
HumanDurationUnpadded(d) ==
    IF d < 0 THEN Passed
    ELSE With(d \div Minute, LAMBDA totalMins :
            IF totalMins < 60 THEN Itoa(totalMins) \o <<"m">>
            ELSE IF totalMins % 60 = 0 THEN Itoa(totalMins \div 60) \o <<"h">>
            ELSE Itoa(totalMins \div 60) \o <<"h">> \o Itoa(totalMins % 60) \o <<"m">>)

\* HumanDuration(d); int(d.Minutes()) drops the fraction of a minute
HumanDuration(d) ==
    IF d < 0 THEN Passed
    ELSE With(d \div Minute, LAMBDA totalMins :
            IF totalMins < 60 THEN Itoa(totalMins) \o <<"m">>
            ELSE IF totalMins % 60 = 0 THEN Itoa(totalMins \div 60) \o <<"h">>
            ELSE Itoa(totalMins \div 60) \o <<"h">> \o Pad2(totalMins % 60) \o <<"m">>)

\* FormatTime(t, ampm): t.Format("03:04 PM") or t.Format("15:04")
FormatTime(t, ampm) ==
    With([h |-> (t % Day) \div Hour, m |-> (t % Hour) \div Minute], LAMBDA c :
        IF ampm
        THEN Format2(IF c.h % 12 = 0 THEN 12 ELSE c.h % 12) \o <<":">> \o Format2(c.m)
                \o <<" ">> \o (IF c.h < 12 THEN <<"A", "M">> ELSE <<"P", "M">>)
        ELSE Format2(c.h) \o <<":">> \o Format2(c.m))

\* strings.Join(parts, " ")
RECURSIVE JoinSpace(_)
JoinSpace(parts) ==
    IF Len(parts) = 0 THEN <<>>
    ELSE IF Len(parts) = 1 THEN <<parts[1]>>
    ELSE <<parts[1], " ">> \o JoinSpace(Tail(parts))

\* HijriString(resp, arabic): the date, the month and the weekday of the
\* lunar date that are not empty, joined by spaces
HijriString(resp, arabic) ==
    JoinSpace(SelectSeq(
        <<resp.Hijri.Date,
          IF arabic THEN resp.Hijri.MonthAr ELSE resp.Hijri.MonthEn,
          IF arabic THEN resp.Hijri.WeekdayAr ELSE resp.Hijri.WeekdayEn>>,
        LAMBDA part : part # ""))

-----------------------------------------------------------------------------
(* package waybar (part_001), the Build that runWaybar calls *)

\* the text of a next event without regard to the short flag
NextTextAlwaysLong(next, ampm, short, now) ==
    <<next.Name, " ">> \o FormatTime(next.When, ampm)
        \o <<" ", "(">> \o HumanDuration(next.When - now) \o <<")">>

\* part_001:112-118: the text when next != nil
NextText(next, ampm, short, now) ==
    IF short
    THEN <<next.Name, " ">> \o FormatTime(next.When, ampm)
    ELSE <<next.Name, " ">> \o FormatTime(next.When, ampm)
            \o <<" ", "(">> \o HumanDuration(next.When - now) \o <<")">>

\* the fallback of the Build with a precomputed next event (part_001:41)
NoUpcomingPrayer == <<"No upcoming prayer">>

\* part_001:121-122: the text, and the tooltip line, when next == nil
NoNextText == <<"Internal Error">>

\* part_001:129-134: the marker of an event in the schedule, the check mark
\* written " done" and the arrow " next"
Marker(e, next, now) ==
    IF now > e.When THEN " done"
    ELSE IF ~next.nil /\ e.Name = next.Name THEN " next"
    ELSE ""

\* part_001:126-140: one line per name of StandardOrder, from name number k
\* on, for the first event of that name; the name stands for its 8 columns
RECURSIVE ScheduleLines(_, _, _, _, _)
ScheduleLines(k, events, next, ampm, now) ==
    IF k > Len(StandardOrder) THEN <<>>
    ELSE IF Named(events, StandardOrder[k]) = {}
         THEN ScheduleLines(k + 1, events, next, ampm, now)
    ELSE With(events[CHOOSE i \in Named(events, StandardOrder[k]) :
                        \A j \in Named(events, StandardOrder[k]) : i <= j],
              LAMBDA e :
                <<(<<"  ", e.Name, " ">> \o FormatTime(e.When, ampm)
                        \o <<Marker(e, next, now)>>)>>
                    \o ScheduleLines(k + 1, events, next, ampm, now))

\* Build(resp, ampm, arabic, short) with time.Now().In(loc) = now; the
\* tooltip is the sequence of the lines that strings.Join puts together
Build(resp, ampm, arabic, short, now) ==
    With(ParseTimes(resp, now), LAMBDA events :
    With(NextEventAfter(events, now), LAMBDA next :
    With(HijriString(resp, arabic), LAMBDA hijri :
        [Text    |-> IF next.nil THEN NoNextText ELSE NextText(next, ampm, short, now),
         Tooltip |-> (IF hijri = <<>> THEN <<>> ELSE <<(<<"calendar ">> \o hijri)>>)
                        \o (IF next.nil THEN <<NoNextText>>
                            ELSE <<(<<"Next: ", next.Name, " - ">>
                                        \o HumanDuration(next.When - now))>>)
                        \o << <<>>, <<"Today's Schedule:">> >>
                        \o ScheduleLines(1, events, next, ampm, now),
         Class   |-> "adhan"])))

\* waybar.Print(out): one line of JSON on standard output
WaybarPrint(stdout, out) == Append(stdout, out)

-----------------------------------------------------------------------------
(* The inputs of a run of the daemon *)

\* how long a run is followed, in units of 500 ms
MaxElapsed == 68

\* time.Now() when `adhanctl serve` starts: 15-06-2024 12:29:40
StartInstants == {TimeDate(2024, 6, 15, 12, 29) + 40 * Second}

MaxClock == TimeDate(2024, 6, 15, 12, 29) + 40 * Second + MaxElapsed

\* the configurations of a run: f.interval (config `interval`, flag
\* --interval) and cfg.CacheSecs as a duration
Configurations ==
    { [interval |-> 0,               ttl |-> 0],
      [interval |-> 0 - 5 * Second,  ttl |-> 15 * Second],
      [interval |-> 15 * Second,     ttl |-> 0] }

\* the configurations the runs with fairness start from
FairConfigurations ==
    { [interval |-> 15 * Second,     ttl |-> 0],
      [interval |-> 15 * Second,     ttl |-> 15 * Second] }

\* data.timings of a response whose rows parse
GoodTimings ==
    [Fajr  |-> <<"0", "5", ":", "1", "2">>,
     Dhuhr |-> <<"1", "2", ":", "3", "0", " ", "(", "+", "0", "3", ")">>]

\* data.timings of a response with no row that parses: no colon, only spaces
BadTimings ==
    [Fajr  |-> <<"0", "5", "1", "2">>,
     Dhuhr |-> <<" ">>]

\* the responses the provider may give to a request made at instant t: the
\* Gregorian date of the response is the requested one, or the day after it
\* where the provider's day is ahead of the machine's
Responses(t) ==
    { [GregorianDate |-> FormatDMY(t), Timings |-> GoodTimings],
      [GregorianDate |-> FormatDMY(t + Day), Timings |-> GoodTimings],
      [GregorianDate |-> FormatDMY(t), Timings |-> BadTimings] }

-----------------------------------------------------------------------------
(* State *)

VARIABLES
    clock,        \* time.Now()
    fInterval,    \* f.interval
    interval,     \* the period of the ticker (main.go:341)
    ttl,          \* c.TTL
    cache,        \* the files of the cache directory: [key, modTime, resp]
    pc,           \* where the main goroutine is
    ctxDone,      \* ctx of signal.NotifyContext is cancelled
    tickPending,  \* a tick is buffered in ticker.C (capacity 1)
    nextTick,     \* when the ticker sends next
    lastTick,     \* when the ticker sent last (or was created)
    cycle,        \* number of calls of scheduleEvents so far
    params,       \* params of the running scheduleEvents
    attempt,      \* i of fetchWithRetries
    backoff,      \* backoff of fetchWithRetries
    backoffUntil, \* when time.After(backoff) delivers
    timers,       \* goroutines of scheduleNotification waiting on timer.C
    notified,     \* calls of notify.Prayer made so far
    notifyError,  \* notify.Desktop has failed and the error was logged
    last,         \* how the last finished call of scheduleEvents went
    q             \* an application of a query function (QuerySpec)

vars == <<clock, fInterval, interval, ttl, cache, pc, ctxDone, tickPending,
          nextTick, lastTick, cycle, params, attempt, backoff, backoffUntil,
          timers, notified, notifyError, last, q>>

daemonVars == <<clock, fInterval, interval, ttl, cache, pc, ctxDone,
                tickPending, nextTick, lastTick, cycle, params, attempt,
                backoff, backoffUntil, timers, notified, notifyError, last>>

NoCycle == [n |-> 0, outcome |-> "none", now |-> 0, events |-> <<>>,
            armed |-> {}, resp |-> "none", hit |-> FALSE, setOk |-> FALSE]

-----------------------------------------------------------------------------
(* internal/cache/cache.go, for one location, method and school *)

\* filePath(params): the part of the file name that varies, the date
filePath(p) == CivilOf(p.Date)

\* Cache.Get(params) at instant now: <<resp, ok>>
CacheGet(files, TTL, p, now) ==
    IF TTL <= 0 THEN [ok |-> FALSE, resp |-> "none"]
    ELSE IF ~\E f \in files : f.key = filePath(p)
         THEN [ok |-> FALSE, resp |-> "none"]
    ELSE LET f == CHOOSE g \in files : g.key = filePath(p)
         IN  IF now - f.modTime > TTL THEN [ok |-> FALSE, resp |-> "none"]
             ELSE [ok |-> TRUE, resp |-> f.resp]

\* Cache.Set(params, resp) at instant now, when the write succeeds
CacheSet(files, p, resp, now) ==
    {f \in files : f.key # filePath(p)}
        \cup {[key |-> filePath(p), modTime |-> now, resp |-> resp]}

-----------------------------------------------------------------------------
(* cmd/adhanctl/main.go: runServe *)

\* the configured interval used as it is
ServeIntervalUnclamped(configured) == configured

\* main.go:341
ServeInterval(configured) == Max(configured, MinInterval)

\* time.Since(ev.When) in the place of time.Until(ev.When)
SinceForUntil(when, now) == now - when

\* time.Until(ev.When) read at instant now
Until(when, now) == when - now

\* scheduleNotification(ev, hijri) started at instant now: the goroutine of
\* cycle n that waits on a timer of duration time.Until(ev.When)
Timer(ev, n, now) ==
    [Name |-> ev.Name, When |-> ev.When, cycle |-> n,
     deadline |-> now + Until(ev.When, now)]

\* main.go:385-390: the events of `upcoming` a goroutine is started for
RECURSIVE ArmLoop(_, _)
ArmLoop(upcoming, now) ==
    IF upcoming = <<>> THEN <<>>
    ELSE IF Head(upcoming).When < now THEN ArmLoop(Tail(upcoming), now)
    ELSE <<Head(upcoming)>> \o ArmLoop(Tail(upcoming), now)

\* main.go:378-390
EventsToArm(events, now) ==
    With(UpcomingEvents(events, now, Horizon), LAMBDA upcoming : ArmLoop(upcoming, now))

Range(s) == {s[i] : i \in 1..Len(s)}

\* the goroutines waiting after a call of scheduleEvents armed `new`: the
\* code keeps no handle on the goroutines it started before, they stay
LiveTimers(old, new) == old \cup new

\* runServe gives up when a fetch fails, as the one-shot commands do
AfterCycleExitOnFetchError(outcome) ==
    IF outcome = "fetch_error" THEN "done" ELSE "select"

\* runServe gives up when nothing was parsed, as runNotify does
AfterCycleExitOnEmpty(outcome) ==
    IF outcome = "empty" THEN "done" ELSE "select"

\* where the main goroutine goes when scheduleEvents returns: back to the
\* select of the for loop (main.go:395-403), however the call ended
AfterCycle(outcome) == "select"

\* main.go:385-390: the goroutines cycle n starts at instant now
NewTimers(events, n, now) ==
    {Timer(e, n, now) : e \in Range(EventsToArm(events, now))}

\* main.go:370-390 with resp at hand: parse and, unless nothing was parsed,
\* arm the upcoming events
Reschedule(resp, hit, setOk) ==
    \E events \in {ParseTimes(resp, clock)} :
        IF Len(events) = 0
        THEN /\ timers' = timers
             /\ last' = [n |-> cycle, outcome |-> "empty", now |-> clock,
                         events |-> events, armed |-> {}, resp |-> resp,
                         hit |-> hit, setOk |-> setOk]
             /\ pc' = AfterCycle("empty")
        ELSE \E new \in {NewTimers(events, cycle, clock)} :
             /\ timers' = LiveTimers(timers, new)
             /\ last' = [n |-> cycle, outcome |-> "armed", now |-> clock,
                         events |-> events, armed |-> new, resp |-> resp,
                         hit |-> hit, setOk |-> setOk]
             /\ pc' = AfterCycle("armed")

\* scheduleEvents returns at main.go:365
FetchFailed ==
    /\ last' = [NoCycle EXCEPT !.n = cycle, !.outcome = "fetch_error"]
    /\ pc' = AfterCycle("fetch_error")
    /\ UNCHANGED timers

\* main.go:326-352: the interval is clamped and the ticker created
StartServe ==
    /\ pc = "init"
    /\ interval' = ServeInterval(fInterval)
    /\ nextTick' = clock + ServeInterval(fInterval)
    /\ lastTick' = clock
    /\ pc' = "schedule"
    /\ cycle' = 1
    /\ UNCHANGED <<clock, fInterval, ttl, cache, ctxDone, tickPending, params,
                   attempt, backoff, backoffUntil, timers, notified,
                   notifyError, last, q>>

\* main.go:355: params := buildParams(f), with Date: time.Now()
buildParams == [Date |-> clock]

\* main.go:355-359, 370-390: scheduleEvents begins and finds the response in
\* the cache: it parses and arms
ScheduleHit ==
    /\ pc = "schedule"
    /\ params' = buildParams
    /\ \E got \in {CacheGet(cache, ttl, buildParams, clock)} :
          /\ got.ok
          /\ Reschedule(got.resp, TRUE, FALSE)
    /\ UNCHANGED <<clock, fInterval, interval, ttl, cache, ctxDone, tickPending,
                   nextTick, lastTick, cycle, attempt, backoff, backoffUntil,
                   notified, notifyError, q>>

\* main.go:355-362, aladhan.go:129-133: scheduleEvents begins, misses the
\* cache and calls FetchTimings
ScheduleMiss ==
    /\ pc = "schedule"
    /\ ~CacheGet(cache, ttl, buildParams, clock).ok
    /\ params' = buildParams
    /\ pc' = "fetch"
    /\ attempt' = 0
    /\ backoff' = InitialBackoff
    /\ UNCHANGED <<clock, fInterval, interval, ttl, cache, ctxDone, tickPending,
                   nextTick, lastTick, cycle, backoffUntil, timers, notified,
                   notifyError, last, q>>

\* scheduleEvents returns when c.Set fails, as it does when the fetch fails
SetErrorReturns(setOk) == ~setOk

\* main.go:367: _ = c.Set(params, resp); the error of Set is dropped and
\* scheduleEvents goes on
SetErrorAborts(setOk) == FALSE

\* aladhan.go:134-136, main.go:367-390: an attempt succeeds; the response is
\* written to the cache (the write may fail), parsed and armed
FetchOk ==
    /\ pc = "fetch"
    /\ ~ctxDone
    /\ \E resp \in Responses(params.Date), setOk \in BOOLEAN :
          /\ cache' = (IF setOk THEN CacheSet(cache, params, resp, clock) ELSE cache)
          /\ IF SetErrorAborts(setOk)
             THEN FetchFailed
             ELSE Reschedule(resp, FALSE, setOk)
    /\ UNCHANGED <<clock, fInterval, interval, ttl, ctxDone, tickPending, nextTick,
                   lastTick, cycle, params, attempt, backoff, backoffUntil,
                   notified, notifyError, q>>

\* aladhan.go:134-148: an attempt fails (always so once ctx is cancelled) and
\* the select on ctx.Done() and time.After(backoff) begins
FetchErr ==
    /\ pc = "fetch"
    /\ pc' = "backoff"
    /\ backoffUntil' = clock + backoff
    /\ UNCHANGED <<clock, fInterval, interval, ttl, cache, ctxDone, tickPending,
                   nextTick, lastTick, cycle, params, attempt, backoff, timers,
                   notified, notifyError, last, q>>

\* aladhan.go:145-146
BackoffCancelled ==
    /\ pc = "backoff"
    /\ ctxDone
    /\ FetchFailed
    /\ UNCHANGED <<clock, fInterval, interval, ttl, cache, ctxDone, tickPending,
                   nextTick, lastTick, cycle, params, attempt, backoff,
                   backoffUntil, notified, notifyError, q>>

\* the wait elapses and backoff is doubled with no cap
BackoffElapsedUncapped ==
    /\ pc = "backoff"
    /\ clock >= backoffUntil
    /\ backoff' = 2 * backoff
    /\ attempt' = attempt + 1
    /\ IF attempt + 1 >= MaxRetries
       THEN FetchFailed
       ELSE pc' = "fetch" /\ UNCHANGED <<timers, last>>
    /\ UNCHANGED <<clock, fInterval, interval, ttl, cache, ctxDone, tickPending,
                   nextTick, lastTick, cycle, params, backoffUntil, notified,
                   notifyError, q>>

\* aladhan.go:147-156
BackoffElapsed ==
    /\ pc = "backoff"
    /\ clock >= backoffUntil
    /\ backoff' = (IF 2 * backoff > MaxBackoff THEN MaxBackoff ELSE 2 * backoff)
    /\ attempt' = attempt + 1
    /\ IF attempt + 1 >= MaxRetries
       THEN FetchFailed
       ELSE pc' = "fetch" /\ UNCHANGED <<timers, last>>
    /\ UNCHANGED <<clock, fInterval, interval, ttl, cache, ctxDone, tickPending,
                   nextTick, lastTick, cycle, params, backoffUntil, notified,
                   notifyError, q>>

\* every tick starts scheduleEvents, whatever the main goroutine is doing
SelectTickConcurrent ==
    /\ pc \in {"select", "fetch", "backoff"}
    /\ tickPending
    /\ tickPending' = FALSE
    /\ cycle' = cycle + 1
    /\ pc' = "schedule"
    /\ UNCHANGED <<clock, fInterval, interval, ttl, cache, ctxDone, nextTick,
                   lastTick, params, attempt, backoff, backoffUntil, timers,
                   notified, notifyError, last, q>>

\* main.go:400-401
SelectTick ==
    /\ pc = "select"
    /\ tickPending
    /\ tickPending' = FALSE
    /\ cycle' = cycle + 1
    /\ pc' = "schedule"
    /\ UNCHANGED <<clock, fInterval, interval, ttl, cache, ctxDone, nextTick,
                   lastTick, params, attempt, backoff, backoffUntil, timers,
                   notified, notifyError, last, q>>

\* main.go:397-399: runServe returns, main returns, the process ends
SelectDone ==
    /\ pc = "select"
    /\ ctxDone
    /\ pc' = "done"
    /\ UNCHANGED <<clock, fInterval, interval, ttl, cache, ctxDone, tickPending,
                   nextTick, lastTick, cycle, params, attempt, backoff,
                   backoffUntil, timers, notified, notifyError, last, q>>

\* main.go:345: SIGINT or SIGTERM cancels ctx
Signal ==
    /\ pc \notin {"init", "done"}
    /\ ~ctxDone
    /\ ctxDone' = TRUE
    /\ UNCHANGED <<clock, fInterval, interval, ttl, cache, pc, tickPending,
                   nextTick, lastTick, cycle, params, attempt, backoff,
                   backoffUntil, timers, notified, notifyError, last, q>>

\* the goroutines keep running after runServe has returned
GoroutinesOutliveMain == pc # "init"

\* the goroutines of the process run until main returns
ProcessAlive == pc \notin {"init", "done"}

\* main.go:351: the ticker sends on its channel of capacity 1, and drops the
\* tick when the channel is full
TickerSend ==
    /\ ProcessAlive
    /\ clock >= nextTick
    /\ tickPending' = TRUE
    /\ lastTick' = nextTick
    /\ nextTick' = nextTick + interval
    /\ UNCHANGED <<clock, fInterval, interval, ttl, cache, pc, ctxDone, cycle,
                   params, attempt, backoff, backoffUntil, timers, notified,
                   notifyError, last, q>>

\* notify.go:27: title of the notification
Title(name) == <<"mosque", name>>

\* main.go:413-414, notify.go:26-37: a timer delivers and notify.Prayer is
\* called; a failure of notify.Desktop is logged
TimerFire ==
    /\ ProcessAlive
    /\ \E t \in timers, failed \in BOOLEAN :
          /\ clock >= t.deadline
          /\ timers' = timers \ {t}
          /\ notified' = notified \cup
                {[Name |-> t.Name, When |-> t.When, cycle |-> t.cycle,
                  title |-> Title(t.Name), at |-> clock]}
          /\ notifyError' = (notifyError \/ failed)
    /\ UNCHANGED <<clock, fInterval, interval, ttl, cache, pc, ctxDone,
                   tickPending, nextTick, lastTick, cycle, params, attempt,
                   backoff, backoffUntil, last, q>>

\* a goroutine that can run does so before time passes
Runnable ==
    \/ pc \in {"init", "schedule", "fetch"}
    \/ pc = "backoff" /\ (ctxDone \/ clock >= backoffUntil)
    \/ pc = "select" /\ (ctxDone \/ tickPending)
    \/ ProcessAlive /\ clock >= nextTick
    \/ ProcessAlive /\ \E t \in timers : clock >= t.deadline

\* the instants something waits for
Deadlines ==
    {t.deadline : t \in timers}
        \cup (IF ProcessAlive THEN {nextTick} ELSE {})
        \cup (IF pc = "backoff" THEN {backoffUntil} ELSE {})

\* time passes, up to the next instant something waits for
AdvanceClock ==
    /\ ~Runnable
    /\ \E d \in Deadlines :
          /\ d > clock
          /\ d <= MaxClock
          /\ \A e \in Deadlines : e > clock => d <= e
          /\ clock' = d
    /\ UNCHANGED <<fInterval, interval, ttl, cache, pc, ctxDone, tickPending,
                   nextTick, lastTick, cycle, params, attempt, backoff,
                   backoffUntil, timers, notified, notifyError, last, q>>

NoQuery == [op |-> "none"]

InitWith(configurations) ==
    /\ clock \in StartInstants
    /\ \E c \in configurations : fInterval = c.interval /\ ttl = c.ttl
    /\ interval = 0
    /\ cache = {}
    /\ pc = "init"
    /\ ctxDone = FALSE
    /\ tickPending = FALSE
    /\ nextTick = 0
    /\ lastTick = 0
    /\ cycle = 0
    /\ params = [Date |-> 0]
    /\ attempt = 0
    /\ backoff = 0
    /\ backoffUntil = 0
    /\ timers = {}
    /\ notified = {}
    /\ notifyError = FALSE
    /\ last = NoCycle
    /\ q = NoQuery

Init == InitWith(Configurations)

FairInit == InitWith(FairConfigurations)

Next ==
    \/ StartServe
    \/ ScheduleHit
    \/ ScheduleMiss
    \/ FetchOk
    \/ FetchErr
    \/ BackoffCancelled
    \/ BackoffElapsed
    \/ SelectTick
    \/ SelectDone
    \/ Signal
    \/ TickerSend
    \/ TimerFire
    \/ AdvanceClock

Spec == Init /\ [][Next]_vars


\* the main goroutine: a goroutine that can run is run in the end
MainStep ==
    \/ StartServe
    \/ ScheduleHit
    \/ ScheduleMiss
    \/ FetchOk
    \/ FetchErr
    \/ BackoffCancelled
    \/ BackoffElapsed
    \/ SelectTick
    \/ SelectDone

FairSpec == FairInit /\ [][Next]_vars /\ WF_vars(MainStep)

-----------------------------------------------------------------------------
(* The query functions applied to arbitrary inputs *)

\* the longest event sequence, and the latest instant, of a query
MaxEvents == 3
MaxWhen == 3

QueryNames == {"Fajr", "Dhuhr"}

QueryEvents == {Event(n, w) : n \in QueryNames, w \in 0..MaxWhen}

\* the widths of the window of UpcomingEvents
QueryWithins == {0, 3}

RECURSIVE SeqsUpTo(_, _)
SeqsUpTo(S, n) ==
    IF n = 0 THEN {<<>>}
    ELSE LET shorter == SeqsUpTo(S, n - 1)
         IN  shorter \cup {Append(t, x) : t \in {u \in shorter : Len(u) = n - 1}, x \in S}

QInit ==
    /\ clock = 0
    /\ fInterval = 0
    /\ ttl = 0
    /\ interval = 0
    /\ cache = {}
    /\ pc = "query"
    /\ ctxDone = FALSE
    /\ tickPending = FALSE
    /\ nextTick = 0
    /\ lastTick = 0
    /\ cycle = 0
    /\ params = [Date |-> 0]
    /\ attempt = 0
    /\ backoff = 0
    /\ backoffUntil = 0
    /\ timers = {}
    /\ notified = {}
    /\ notifyError = FALSE
    /\ last = NoCycle
    /\ \E events \in SeqsUpTo(QueryEvents, MaxEvents), after \in (0 - 1)..(MaxWhen + 1),
          within \in QueryWithins :
          q = [op |-> "input", input |-> events, events |-> events, after |-> after,
               within |-> within, calls |-> 0, previous |-> <<>>, result |-> NoEvent]

\* next := prayer.NextEventAfter(events, now)
CallNextEventAfter ==
    /\ q.op = "input"
    /\ q' = [q EXCEPT !.op = "NextEventAfter",
                      !.result = NextEventAfter(q.events, q.after)]
    /\ UNCHANGED daemonVars

\* upcoming := prayer.UpcomingEvents(events, now, within), called once and
\* then once more with the same arguments
CallUpcomingEvents ==
    /\ q.op \in {"input", "UpcomingEvents"}
    /\ q.calls < 2
    /\ q' = [q EXCEPT !.op = "UpcomingEvents",
                      !.calls = q.calls + 1,
                      !.previous = q.result,
                      !.result = UpcomingEvents(q.events, q.after, q.within),
                      !.events = EventsAfterUpcoming(q.events)]
    /\ UNCHANGED daemonVars

QNext ==
    \/ CallNextEventAfter
    \/ CallUpcomingEvents

QuerySpec == QInit /\ [][QNext]_vars

-----------------------------------------------------------------------------
(* ParseTimes applied to arbitrary payloads *)

\* raw timing strings whose token is a well-formed 24-hour HH:MM
PlainTimes ==
    { <<"0", "5", ":", "1", "2">>, <<"1", "2", ":", "0", "5">>, <<"1", "2", ":", "3", "0">>, <<"2", "3", ":", "5", "9">> }

\* "12:30 (+03)" and "12:30(+03)"
AnnotatedTimes ==
    { <<"1", "2", ":", "3", "0", " ", "(", "+", "0", "3", ")">>,
      <<"1", "2", ":", "3", "0", "(", "+", "0", "3", ")">> }

\* raw timing strings with a malformed token: no colon, letters, hour 25,
\* minute 75, only white space
MalformedTimes ==
    { <<"0", "5", "1", "2">>, <<"a", "b", ":", "c", "d">>, <<"2", "5", ":", "0", "0">>, <<"1", "2", ":", "7", "5">>, <<" ">> }

RawTimes == PlainTimes \cup AnnotatedTimes \cup MalformedTimes

\* data.date.gregorian.date as DD-MM-YYYY
GoodDates == { <<"1", "5", "-", "0", "6", "-", "2", "0", "2", "4">>, <<"2", "9", "-", "0", "2", "-", "2", "0", "2", "4">> }

\* the date missing, with slashes, with letters for the day, with day 32,
\* with month 13
BadDates ==
    { <<>>, <<"1", "5", "/", "0", "6", "/", "2", "0", "2", "4">>, <<"a", "a", "-", "0", "6", "-", "2", "0", "2", "4">>,
      <<"3", "2", "-", "0", "6", "-", "2", "0", "2", "4">>, <<"1", "5", "-", "1", "3", "-", "2", "0", "2", "4">> }

\* the keys of data.timings: names of StandardOrder, and one that is not
TimingKeys == { {"Fajr", "Dhuhr", "Isha"}, {"Dhuhr", "Midnight"} }

\* time.Now().In(loc): on the date of GoodDates, and on the day after it
ParseNows ==
    { TimeDate(2024, 6, 15, 10, 0), TimeDate(2024, 6, 16, 10, 0) + 30 * Second }

PInit ==
    /\ clock = 0
    /\ fInterval = 0
    /\ ttl = 0
    /\ interval = 0
    /\ cache = {}
    /\ pc = "query"
    /\ ctxDone = FALSE
    /\ tickPending = FALSE
    /\ nextTick = 0
    /\ lastTick = 0
    /\ cycle = 0
    /\ params = [Date |-> 0]
    /\ attempt = 0
    /\ backoff = 0
    /\ backoffUntil = 0
    /\ timers = {}
    /\ notified = {}
    /\ notifyError = FALSE
    /\ last = NoCycle
    /\ \E keys \in TimingKeys, date \in GoodDates \cup BadDates, now \in ParseNows :
          \E timings \in [keys -> RawTimes] :
             q = [op |-> "input",
                  resp |-> [GregorianDate |-> date, Timings |-> timings],
                  now |-> now, result |-> <<>>]

\* events := prayer.ParseTimes(resp, loc)
CallParseTimes ==
    /\ q.op = "input"
    /\ q' = [q EXCEPT !.op = "ParseTimes", !.result = ParseTimes(q.resp, q.now)]
    /\ UNCHANGED daemonVars

PNext == CallParseTimes

ParseSpec == PInit /\ [][PNext]_vars

-----------------------------------------------------------------------------
(* HumanDuration applied to arbitrary durations *)

\* the longest duration rendered, in minutes
MaxMinutes == 130

\* whole minutes from two minutes ago on, and each with 500 ms and with all
\* but 500 ms of a further minute
Durations ==
    {m * Minute + part : m \in (0 - 2)..MaxMinutes, part \in {0, 1, Minute - 1}}

DInit ==
    /\ clock = 0
    /\ fInterval = 0
    /\ ttl = 0
    /\ interval = 0
    /\ cache = {}
    /\ pc = "query"
    /\ ctxDone = FALSE
    /\ tickPending = FALSE
    /\ nextTick = 0
    /\ lastTick = 0
    /\ cycle = 0
    /\ params = [Date |-> 0]
    /\ attempt = 0
    /\ backoff = 0
    /\ backoffUntil = 0
    /\ timers = {}
    /\ notified = {}
    /\ notifyError = FALSE
    /\ last = NoCycle
    /\ \E d \in Durations : q = [op |-> "input", d |-> d, result |-> <<>>]

\* rem := prayer.HumanDuration(d)
CallHumanDuration ==
    /\ q.op = "input"
    /\ q' = [q EXCEPT !.op = "HumanDuration", !.result = HumanDuration(q.d)]
    /\ UNCHANGED daemonVars

DNext == CallHumanDuration

DurationSpec == DInit /\ [][DNext]_vars

-----------------------------------------------------------------------------
(* cmd/adhanctl/main.go: runWaybar, one run of `adhanctl waybar` *)

\* the lunar date of a response: all parts empty, or all given
Hijris ==
    { [Date |-> "", MonthEn |-> "", MonthAr |-> "", WeekdayEn |-> "", WeekdayAr |-> ""],
      [Date |-> "09-12-1445", MonthEn |-> "Dhu al-Hijjah", MonthAr |-> "month-ar",
       WeekdayEn |-> "Al Sabt", WeekdayAr |-> "weekday-ar"] }

\* the responses fetchWithCache may return on 15-06-2024: rows that parse,
\* rows that do not
WaybarResponses ==
    { [GregorianDate |-> FormatDMY(TimeDate(2024, 6, 15, 0, 0)), Timings |-> t, Hijri |-> h] :
        t \in {GoodTimings, BadTimings}, h \in Hijris }

\* time.Now() in Build: before Fajr, between Fajr and Dhuhr, at Dhuhr to the
\* half second, after Dhuhr
WaybarNows ==
    { TimeDate(2024, 6, 15, 4, 0), TimeDate(2024, 6, 15, 10, 0),
      TimeDate(2024, 6, 15, 12, 30), TimeDate(2024, 6, 15, 13, 0) + 1 }

\* what validateLocation finds in the flags: coordinates, a city and a
\* country, or neither
Locations == {"coords", "city", "none"}

\* the error exits of the other commands: os.Exit(1)
WaybarExitCodeAsOthers(outcome) == IF outcome = "built" THEN 0 ELSE 1

\* main.go:421, 438, 445: os.Exit(0) after an error record; main.go:449-450
\* and main.go:43: runWaybar and main return
WaybarExitCode(outcome) == 0

\* main.go:420, 437, 444: the record of an error; the tooltip is err.Error()
ErrorOutput(outcome) ==
    [Text    |-> IF outcome = "config_error" THEN <<"adhanctl: config error">>
                 ELSE IF outcome = "no_location" THEN <<"adhanctl: no location">>
                 ELSE <<"adhanctl: error">>,
     Tooltip |-> << <<"err.Error()">> >>,
     Class   |-> ""]

\* the run ends: a record is printed and the process exits
WaybarEnds(outcome, out) ==
    q' = [q EXCEPT !.pc = "exited", !.outcome = outcome,
                   !.stdout = WaybarPrint(q.stdout, out),
                   !.exit = WaybarExitCode(outcome)]

WInit ==
    /\ clock = 0
    /\ fInterval = 0
    /\ ttl = 0
    /\ interval = 0
    /\ cache = {}
    /\ pc = "query"
    /\ ctxDone = FALSE
    /\ tickPending = FALSE
    /\ nextTick = 0
    /\ lastTick = 0
    /\ cycle = 0
    /\ params = [Date |-> 0]
    /\ attempt = 0
    /\ backoff = 0
    /\ backoffUntil = 0
    /\ timers = {}
    /\ notified = {}
    /\ notifyError = FALSE
    /\ last = NoCycle
    /\ \E cfgShort, argShort, ampm, arabic \in BOOLEAN, location \in Locations,
          now \in WaybarNows :
          q = [op |-> "waybar", pc |-> "load", cfgShort |-> cfgShort,
               argShort |-> argShort, short |-> FALSE, ampm |-> ampm,
               arabic |-> arabic, location |-> location, now |-> now,
               resp |-> "none", outcome |-> "none", stdout |-> <<>>, exit |-> -1]

\* main.go:418-432: config.Load() fails and the error record is printed, or
\* short is cfg.Short or the --short argument
WaybarLoad ==
    /\ q.op = "waybar"
    /\ q.pc = "load"
    /\ \E ok \in BOOLEAN :
          IF ok
          THEN q' = [q EXCEPT !.pc = "validate", !.short = q.cfgShort \/ q.argShort]
          ELSE WaybarEnds("config_error", ErrorOutput("config_error"))
    /\ UNCHANGED daemonVars

\* main.go:434-439, 183-191
WaybarValidate ==
    /\ q.op = "waybar"
    /\ q.pc = "validate"
    /\ IF q.location = "none"
       THEN WaybarEnds("no_location", ErrorOutput("no_location"))
       ELSE q' = [q EXCEPT !.pc = "fetch"]
    /\ UNCHANGED daemonVars

\* main.go:441-446: fetchWithCache returns a response, from the cache or from
\* the provider, or the error of FetchTimings
WaybarFetch ==
    /\ q.op = "waybar"
    /\ q.pc = "fetch"
    /\ \/ \E resp \in WaybarResponses : q' = [q EXCEPT !.pc = "build", !.resp = resp]
       \/ WaybarEnds("fetch_error", ErrorOutput("fetch_error"))
    /\ UNCHANGED daemonVars

\* main.go:448-450
WaybarBuild ==
    /\ q.op = "waybar"
    /\ q.pc = "build"
    /\ WaybarEnds("built", Build(q.resp, q.ampm, q.arabic, q.short, q.now))
    /\ UNCHANGED daemonVars

WNext ==
    \/ WaybarLoad
    \/ WaybarValidate
    \/ WaybarFetch
    \/ WaybarBuild

WaybarSpec == WInit /\ [][WNext]_vars

-----------------------------------------------------------------------------
(* internal/cache/cache.go for arbitrary parameters, and fetchWithCache of   *)
(* cmd/adhanctl/main.go.  A rune outside ASCII is written by its code point, *)
(* "U+0645".  A coordinate is an integer number of 1/100000 of a degree.     *)
(* A file of the cache directory is [path, modTime, data].                  *)

Letters ==
    {"a", "b", "c", "d", "e", "f", "g", "h", "i", "j", "k", "l", "m", "n", "o",
     "p", "q", "r", "s", "t", "u", "v", "w", "x", "y", "z",
     "A", "B", "C", "D", "E", "F", "G", "H", "I", "J", "K", "L", "M", "N", "O",
     "P", "Q", "R", "S", "T", "U", "V", "W", "X", "Y", "Z"}

\* cache.go:104-110: the loop of sanitize
RECURSIVE sanitizeLoop(_)
sanitizeLoop(s) ==
    IF s = <<>> THEN <<>>
    ELSE (IF Head(s) \in Letters \/ IsDigit(Head(s)) \/ Head(s) \in {"-", "_"}
          THEN <<Head(s)>>
          ELSE IF Head(s) = " " THEN <<"_">>
          ELSE <<>>) \o sanitizeLoop(Tail(s))

\* cache.go:102-115
sanitize(s) ==
    IF sanitizeLoop(s) = <<>> THEN <<"d", "e", "f", "a", "u", "l", "t">>
    ELSE sanitizeLoop(s)

\* fmt.Sprintf("%.4f", x) for x in 1/100000 of a degree that is not half-way
\* between two multiples of 1/10000
Fixed4(x) ==
    With((Max(x, 0 - x) + 5) \div 10, LAMBDA r :
        (IF x < 0 THEN <<"-">> ELSE <<>>)
            \o Itoa(r \div 10000) \o <<".">> \o Format4(r % 10000))

\* t.Format("2006-01-02")
FormatYMD(t) ==
    With(CivilOf(t), LAMBDA c :
        Format4(c.year) \o <<"-">> \o Format2(c.month) \o <<"-">> \o Format2(c.day))

\* cache.go:42-47: the key of a location
LocationKey(p) ==
    IF p.Latitude # 0 /\ p.Longitude # 0
    THEN <<"c", "o", "o", "r", "d", "s", "-">> \o Fixed4(p.Latitude)
            \o <<"-">> \o Fixed4(p.Longitude)
    ELSE <<"c", "i", "t", "y", "-">> \o sanitize(p.City)
            \o <<"-">> \o sanitize(p.Country)

\* cache.go:41-51: Cache.filePath(params), the name of the file in c.Dir
CacheFilePath(p) ==
    LocationKey(p)
        \o <<"-", "m", "e", "t", "h", "o", "d">> \o Itoa(p.Method)
        \o <<"-", "s", "c", "h", "o", "o", "l">> \o Itoa(p.School)
        \o <<"-">> \o FormatYMD(p.Date)
        \o <<".", "j", "s", "o", "n">>

\* the keys of data.timings in the order json.Marshal writes a map: sorted
SortedTimingKeys ==
    <<"Asr", "Dhuhr", "Fajr", "Isha", "Maghrib", "Midnight", "Sunrise">>

\* json.Marshal(resp): the members of the object between its braces
Marshal(resp) ==
    <<"{">>
    \o <<[name |-> "date", value |-> resp.GregorianDate]>>
    \o <<[name  |-> "timings",
          value |-> [i \in 1..Len(SelectSeq(SortedTimingKeys,
                                   LAMBDA k : k \in DOMAIN resp.Timings)) |->
                       With(SelectSeq(SortedTimingKeys,
                                LAMBDA k : k \in DOMAIN resp.Timings)[i],
                            LAMBDA k : <<k, resp.Timings[k]>>)]]>>
    \o <<"}">>

\* json.Unmarshal(data, &resp): an error for a text that is not a whole object
Unmarshal(data) ==
    IF Len(data) # 4 \/ data[1] # "{" \/ data[Len(data)] # "}"
    THEN [err |-> TRUE, resp |-> "none"]
    ELSE [err  |-> FALSE,
          resp |-> [GregorianDate |-> data[2].value,
                    Timings |-> [k \in {data[3].value[i][1] : i \in DOMAIN data[3].value} |->
                                   (CHOOSE p \in Range(data[3].value) : p[1] = k)[2]]]]

\* cache.go:53-81: Cache.Get(params) at instant now; readOk is whether
\* os.ReadFile succeeds
CacheGetFile(files, TTL, p, now, readOk) ==
    IF TTL <= 0 THEN [ok |-> FALSE, resp |-> "none"]
    ELSE IF ~\E f \in files : f.path = CacheFilePath(p)
         THEN [ok |-> FALSE, resp |-> "none"]
    ELSE With(CHOOSE g \in files : g.path = CacheFilePath(p), LAMBDA f :
            IF now - f.modTime > TTL THEN [ok |-> FALSE, resp |-> "none"]
            ELSE IF ~readOk THEN [ok |-> FALSE, resp |-> "none"]
            ELSE IF Unmarshal(f.data).err THEN [ok |-> FALSE, resp |-> "none"]
            ELSE [ok |-> TRUE, resp |-> Unmarshal(f.data).resp])

\* what os.MkdirAll and os.WriteFile may do: the file written; an error with
\* nothing written (the directory or the file cannot be created); an error
\* after the file was truncated
SetOutcomes == {"written", "not_written", "truncated"}

\* cache.go:83-100: Cache.Set(params, resp) at instant now
CacheSetFile(files, p, resp, now, outcome) ==
    IF outcome = "not_written" THEN [files |-> files, err |-> TRUE]
    ELSE [files |-> {f \in files : f.path # CacheFilePath(p)}
                      \cup {[path    |-> CacheFilePath(p),
                             modTime |-> now,
                             data    |-> IF outcome = "written"
                                         THEN Marshal(resp) ELSE <<>>]},
          err   |-> outcome # "written"]

\* fetchWithCache without its c.Get: the network is fetched at every call
fetchWithCacheNoGet(files, TTL, p, now, readOk, fetched, outcome) ==
    IF fetched.err
    THEN [files |-> files, network |-> TRUE, err |-> TRUE, resp |-> "none"]
    ELSE [files |-> CacheSetFile(files, p, fetched.resp, now, outcome).files,
          network |-> TRUE, err |-> FALSE, resp |-> fetched.resp]

\* main.go:164-181: fetchWithCache with the flags of p at instant now;
\* fetched is what client.FetchTimings would return
fetchWithCache(files, TTL, p, now, readOk, fetched, outcome) ==
    IF CacheGetFile(files, TTL, p, now, readOk).ok
    THEN [files |-> files, network |-> FALSE, err |-> FALSE,
          resp  |-> CacheGetFile(files, TTL, p, now, readOk).resp]
    ELSE IF fetched.err
    THEN [files |-> files, network |-> TRUE, err |-> TRUE, resp |-> "none"]
    ELSE [files |-> CacheSetFile(files, p, fetched.resp, now, outcome).files,
          network |-> TRUE, err |-> FALSE, resp |-> fetched.resp]

-----------------------------------------------------------------------------
(* The cache and fetchWithCache applied to arbitrary parameters *)

\* the longest time a run lasts, in units of 500 ms, and the number of calls
\* that write to the cache directory
MaxAge == 3
MaxWrites == 1

\* time.Now() at the start of a run
CacheStart == TimeDate(2024, 6, 15, 12, 0)

\* c.TTL: cache_secs of -1, 0 and 1
CacheTTLs == {0 - Second, 0, Second}

\* --city/--country or --lat/--lon: two cities written in Arabic script, one
\* in Latin script, two pairs of coordinates
CacheLocations ==
    { [City |-> <<"U+0645", "U+0643", "U+0629">>, Country |-> <<"S", "A">>,
       Latitude |-> 0, Longitude |-> 0],
      [City |-> <<"U+062C", "U+062F", "U+0629">>, Country |-> <<"S", "A">>,
       Latitude |-> 0, Longitude |-> 0],
      [City |-> <<"R", "i", "o">>, Country |-> <<"B", "R">>,
       Latitude |-> 0, Longitude |-> 0],
      [City |-> <<>>, Country |-> <<>>, Latitude |-> 2142251, Longitude |-> 3982619],
      [City |-> <<>>, Country |-> <<>>, Latitude |-> 2446861, Longitude |-> 3961417] }

\* api.TimingsParams of a location
ParamsOf(l, method, school, date) ==
    [City |-> l.City, Country |-> l.Country, Latitude |-> l.Latitude,
     Longitude |-> l.Longitude, Method |-> method, School |-> school,
     Date |-> date]

\* the parameters of the calls of Get and Set: every location with one
\* method, school and date, and one location with another method, another
\* school, a later instant of the date, and the next date
CacheParams ==
    {ParamsOf(l, 4, 0, CacheStart) : l \in CacheLocations}
    \cup UNION {{ParamsOf(l, 3, 0, CacheStart), ParamsOf(l, 4, 1, CacheStart),
                 ParamsOf(l, 4, 0, CacheStart + 6 * Hour),
                 ParamsOf(l, 4, 0, CacheStart + Day)} :
                   l \in {k \in CacheLocations : k.City = <<"R", "i", "o">>}}

\* the locations of the calls of Set and of fetchWithCache: a city written in
\* Arabic script and one written in Latin script
CacheFlags ==
    {l \in CacheLocations :
        l.City \in {<<"U+0645", "U+0643", "U+0629">>, <<"R", "i", "o">>}}

\* the responses stored and fetched
CacheResponses ==
    {r \in Responses(CacheStart) : r.GregorianDate = FormatDMY(CacheStart)}

\* what client.FetchTimings may return
FetchResults ==
    {[err |-> TRUE, resp |-> "none"]}
        \cup {[err |-> FALSE, resp |-> r] : r \in CacheResponses}

CInit ==
    /\ clock = 0
    /\ fInterval = 0
    /\ ttl = 0
    /\ interval = 0
    /\ cache = {}
    /\ pc = "query"
    /\ ctxDone = FALSE
    /\ tickPending = FALSE
    /\ nextTick = 0
    /\ lastTick = 0
    /\ cycle = 0
    /\ params = [Date |-> 0]
    /\ attempt = 0
    /\ backoff = 0
    /\ backoffUntil = 0
    /\ timers = {}
    /\ notified = {}
    /\ notifyError = FALSE
    /\ last = NoCycle
    /\ \E t \in CacheTTLs :
          q = [op |-> "cache", TTL |-> t, now |-> CacheStart, files |-> {},
               writes |-> 0, stored |-> {}, call |-> [name |-> "none"]]

\* the record of a Set that wrote its file
Stored(p, resp, now) == [params |-> p, resp |-> resp, at |-> now]

\* err := c.Set(params, resp)
CallCacheSet ==
    /\ q.op = "cache"
    /\ q.call.name = "none"
    /\ q.writes < MaxWrites
    /\ \E l \in CacheFlags, r \in CacheResponses, outcome \in SetOutcomes :
          \E p \in {ParamsOf(l, 4, 0, CacheStart)} :
          \E s \in {CacheSetFile(q.files, p, r, q.now, outcome)} :
             q' = [q EXCEPT !.files = s.files,
                            !.writes = @ + 1,
                            !.stored = IF s.err THEN @ ELSE @ \cup {Stored(p, r, q.now)},
                            !.call = [name |-> "Set", params |-> p, resp |-> r,
                                      err |-> s.err]]
    /\ UNCHANGED daemonVars

\* resp, ok := c.Get(params)
CallCacheGet ==
    /\ q.op = "cache"
    /\ q.call.name = "none"
    /\ \E p \in CacheParams, readOk \in BOOLEAN :
          \E g \in {CacheGetFile(q.files, q.TTL, p, q.now, readOk)} :
             q' = [q EXCEPT !.call = [name |-> "Get", params |-> p, readOk |-> readOk,
                                      ok |-> g.ok, resp |-> g.resp]]
    /\ UNCHANGED daemonVars

\* resp, err := fetchWithCache(ctx, cfg, f), with buildParams reading
\* time.Now()
CallFetchWithCache ==
    /\ q.op = "cache"
    /\ q.call.name = "none"
    /\ \E l \in CacheFlags, readOk \in BOOLEAN, fetched \in FetchResults,
          outcome \in SetOutcomes :
          \E p \in {ParamsOf(l, 4, 0, q.now)} :
          \E r \in {fetchWithCache(q.files, q.TTL, p, q.now, readOk, fetched, outcome)} :
             /\ (r.network /\ ~r.err) => q.writes < MaxWrites
             /\ q' = [q EXCEPT !.files = r.files,
                               !.writes = IF r.network /\ ~r.err THEN @ + 1 ELSE @,
                               !.stored = IF r.network /\ ~r.err /\ outcome = "written"
                                          THEN @ \cup {Stored(p, r.resp, q.now)} ELSE @,
                               !.call = [name |-> "fetchWithCache", params |-> p,
                                         readOk |-> readOk, network |-> r.network,
                                         err |-> r.err, resp |-> r.resp]]
    /\ UNCHANGED daemonVars

\* the caller has the result: the command prints it and the process ends
CacheReturn ==
    /\ q.op = "cache"
    /\ q.call.name # "none"
    /\ q' = [q EXCEPT !.call = [name |-> "none"]]
    /\ UNCHANGED daemonVars

\* 500 ms pass between two calls
CachePass ==
    /\ q.op = "cache"
    /\ q.call.name = "none"
    /\ q.now < CacheStart + MaxAge
    /\ q' = [q EXCEPT !.now = @ + 1]
    /\ UNCHANGED daemonVars

CNext ==
    \/ CallCacheSet
    \/ CallCacheGet
    \/ CallFetchWithCache
    \/ CacheReturn
    \/ CachePass

CacheSpec == CInit /\ [][CNext]_vars

-----------------------------------------------------------------------------
(* Claims *)

EventOf(r) == [Name |-> r.Name, When |-> r.When]

NotificationsOf(name, when) == {n \in notified : n.Name = name /\ n.When = when}

\* C1: with no shutdown signal, whatever the number of refresh cycles that
\* armed it, an event is notified exactly once: the notifications of an event
\* that has been notified are one, never two.
C1_NotifiedExactlyOnce ==
    ~ctxDone =>
        \A n \in notified : Cardinality(NotificationsOf(n.Name, n.When)) = 1

\* C2: in every reachable state all live timers belong to one single refresh
\* cycle, and there is at most one live timer per prayer event.
C2_LiveTimersOfOneCycle ==
    \A a, b \in timers :
        /\ a.cycle = b.cycle
        /\ (EventOf(a) = EventOf(b) => a = b)

\* C3: a refresh cycle whose fetch failed ends with zero live timers: with
\* the daemon running on (no signal received), no timer is live from the end
\* of that cycle until the next cycle begins.
C3_FailedCycleHasNoTimers ==
    (last.outcome = "fetch_error" /\ last.n = cycle /\ pc = "select" /\ ~ctxDone)
        => timers = {}

\* C4: the daemon terminates only after a termination signal was received;
\* no fetch failure, empty schedule or notification failure ends it.
C4_ExitsOnlyOnSignal ==
    pc = "done" => ctxDone

\* a cycle's fetch failed with no signal received, a notification failed, and
\* the daemon is back at its select
C4_Witness ==
    /\ last.outcome = "fetch_error"
    /\ notifyError
    /\ ~ctxDone
    /\ pc = "select"

\* C5: after a termination signal the daemon terminates in the end, also when
\* the signal arrives during the backoff wait of a fetch; and once it has
\* terminated no armed timer fires.
C5_SignalTerminates ==
    /\ ctxDone ~> (pc = "done")
    /\ [][pc = "done" => notified' = notified]_vars

\* the daemon has terminated after its last fetch was cut short in a backoff
\* wait, and a timer armed before is due and has not fired
C5_Witness ==
    /\ pc = "done"
    /\ last.outcome = "fetch_error"
    /\ attempt < MaxRetries
    /\ \E t \in timers : clock >= t.deadline

\* C6: a refresh cycle whose payload parses to the empty sequence arms no
\* timer and leaves the daemon running.
C6_EmptyCycleArmsNothing ==
    [][(last'.n # last.n /\ last'.outcome # "fetch_error" /\ last'.events = <<>>)
          => (timers' = timers /\ pc' = "select")]_vars

\* a cycle after the first has parsed nothing, while timers of an earlier
\* cycle are live
C6_Witness ==
    /\ last.outcome = "empty"
    /\ last.events = <<>>
    /\ last.n >= 2
    /\ timers # {}
    /\ pc = "select"

\* the timers a cycle has armed, fired since or not
ArmedIn(n) == {EventOf(t) : t \in {u \in timers \cup notified : u.cycle = n}}

\* C7: in a successful cycle the events a timer is armed for are exactly the
\* parsed events with now < instant < now + 24 hours.
C7_ArmedExactlyWindow ==
    (last.outcome = "armed" /\ last.n = cycle /\ pc = "select") =>
        ArmedIn(last.n) =
            {EventOf(e) : e \in {x \in Range(last.events) :
                last.now < x.When /\ x.When < last.now + 24 * Hour}}

\* a cycle armed a timer and left out an event exactly 24 hours ahead
C7_Witness ==
    /\ last.outcome = "armed"
    /\ pc = "select"
    /\ ArmedIn(last.n) # {}
    /\ \E e \in Range(last.events) : e.When = last.now + 24 * Hour

\* C8: a notification for an event is delivered only when the clock has
\* reached the event's instant, and carries the name of the event.
C8_NotBeforeInstant ==
    \A n \in notified : n.at >= n.When /\ n.title = <<"mosque", n.Name>>

\* a notification was delivered, for an event armed by a cycle that began
\* before the event's instant
C8_Witness ==
    \E n \in notified : n.at = n.When /\ n.cycle = 2

\* C9: the period of the ticker is max(configured, 10 s): never below 10
\* seconds, for zero and negative configured values too.
C9_IntervalClamped ==
    pc \notin {"init", "query"} =>
        /\ interval >= 10 * Second
        /\ interval = (IF fInterval < 10 * Second THEN 10 * Second ELSE fInterval)
        /\ nextTick - lastTick >= 10 * Second

\* with a negative configured interval, the ticker has sent a tick
C9_Witness ==
    /\ fInterval < 0
    /\ tickPending
    /\ lastTick - 10 * Second \in StartInstants

LaterThan(events, after) == {i \in 1..Len(events) : events[i].When > after}

\* C10: NextEventAfter returns an event of the sequence with the least
\* instant among those strictly later than the reference, and none exactly
\* when no event is strictly later.
C10_NextIsEarliestLater ==
    q.op = "NextEventAfter" =>
        LET later == LaterThan(q.events, q.after)
        IN  /\ q.result.nil <=> later = {}
            /\ ~q.result.nil =>
                  /\ \E i \in later : q.events[i] = q.result
                  /\ \A i \in later : q.result.When <= q.events[i].When

\* an unsorted sequence with events before, at and after the reference
C10_Witness ==
    /\ q.op = "NextEventAfter"
    /\ Len(q.events) = 3
    /\ q.events[1].When > q.events[2].When
    /\ q.events[2].When > q.after
    /\ q.events[3].When = q.after
    /\ ~q.result.nil

\* how often event e occurs in the sequence s
CountOf(s, e) == Cardinality({i \in 1..Len(s) : s[i] = e})

\* C11: UpcomingEvents returns exactly the events with
\* from < instant < from + within, each as often as the input holds it, in
\* ascending order of instant; the input sequence is left as it was and a
\* second call with the same arguments returns the same sequence.
C11_UpcomingExactSortedWindow ==
    q.op = "UpcomingEvents" =>
        /\ \A e \in QueryEvents :
              CountOf(q.result, e) =
                  (IF q.after < e.When /\ e.When < q.after + q.within
                   THEN CountOf(q.input, e) ELSE 0)
        /\ \A i \in 1..(Len(q.result) - 1) : q.result[i].When <= q.result[i + 1].When
        /\ q.events = q.input
        /\ q.calls = 2 => q.result = q.previous

\* called twice on an unsorted input with two events inside the window and
\* one exactly at its upper end
C11_Witness ==
    /\ q.op = "UpcomingEvents"
    /\ q.calls = 2
    /\ Len(q.input) = 3
    /\ q.input[1].When > q.input[2].When
    /\ q.input[2].When > q.after
    /\ q.input[3].When = q.after + q.within
    /\ Len(q.result) = 2

\* a token is a well-formed 24-hour HH:MM
WellFormed(ts) ==
    /\ Len(ts) = 5
    /\ ts[3] = ":"
    /\ \A i \in {1, 2, 4, 5} : IsDigit(ts[i])
    /\ 10 * DigitVal(ts[1]) + DigitVal(ts[2]) <= 23
    /\ 10 * DigitVal(ts[4]) + DigitVal(ts[5]) <= 59

\* the first white-space separated field of a raw timing string, up to its
\* first parenthesis
BareToken(raw) ==
    LET w     == TrimLeft(raw)
        stops == {i \in 1..Len(w) : IsSpace(w[i]) \/ w[i] = "("}
    IN  IF stops = {} THEN w
        ELSE SubSeq(w, 1, (CHOOSE i \in stops : \A j \in stops : i <= j) - 1)

\* the names of StandardOrder the payload has a row for
RowsOf(resp) == {n \in DOMAIN resp.Timings : \E k \in 1..Len(StandardOrder) : StandardOrder[k] = n}

\* C12: a row whose token is not a well-formed 24-hour HH:MM produces no
\* event, the other rows of the payload produce theirs, and a payload with no
\* well-formed token yields the empty sequence.
C12_MalformedRowSkipped ==
    q.op = "ParseTimes" =>
        \A n \in RowsOf(q.resp) :
            Named(q.result, n) # {} <=> WellFormed(BareToken(q.resp.Timings[n]))

\* C13: the sequence ParseTimes returns is in ascending order of instant and
\* holds at most one event per name, each a name of the fixed enumeration.
C13_ParsedSortedOnePerName ==
    q.op = "ParseTimes" =>
        /\ \A i \in 1..(Len(q.result) - 1) : q.result[i].When <= q.result[i + 1].When
        /\ \A i, j \in 1..Len(q.result) : q.result[i].Name = q.result[j].Name => i = j
        /\ \A i \in 1..Len(q.result) : q.result[i].Name \in RowsOf(q.resp)

\* a payload whose Dhuhr is earlier than its Fajr, and with a key that is no
\* name of the enumeration: Dhuhr comes first in the result
C13_Witness ==
    /\ q.op = "ParseTimes"
    /\ "Midnight" \notin DOMAIN q.resp.Timings
    /\ Len(q.result) = 3
    /\ q.result[1].Name = "Dhuhr"
    /\ q.result[2].Name = "Isha"
    /\ q.result[3].Name = "Fajr"
    /\ q.result[1].When < q.result[2].When

\* the minutes since midnight a well-formed token names
ClockOf(ts) ==
    60 * (10 * DigitVal(ts[1]) + DigitVal(ts[2])) + 10 * DigitVal(ts[4]) + DigitVal(ts[5])

\* a date string is a day of the calendar written DD-MM-YYYY
ValidDMY(g) ==
    /\ Len(g) = 10
    /\ g[3] = "-" /\ g[6] = "-"
    /\ \A i \in {1, 2, 4, 5, 7, 8, 9, 10} : IsDigit(g[i])
    /\ LET day   == 10 * DigitVal(g[1]) + DigitVal(g[2])
           month == 10 * DigitVal(g[4]) + DigitVal(g[5])
           year  == 1000 * DigitVal(g[7]) + 100 * DigitVal(g[8])
                        + 10 * DigitVal(g[9]) + DigitVal(g[10])
       IN  month \in 1..12 /\ day \in 1..DaysIn(month, year)

\* the rows of the payload with a well-formed token
GoodRows(resp) == {n \in RowsOf(resp) : WellFormed(BareToken(resp.Timings[n]))}

\* the instant of the event a parse gave to a name
WhenOf(events, name) == events[CHOOSE i \in Named(events, name) : TRUE].When

\* C14: with a valid date, rows with well-formed tokens get instants on that
\* date that are ordered as their clock times, distinct for distinct clock
\* times, and the same whenever the payload is parsed.
C14_ParseInjectiveOrdered ==
    (q.op = "ParseTimes" /\ ValidDMY(q.resp.GregorianDate)) =>
        /\ \A a, b \in GoodRows(q.resp) :
              /\ Named(q.result, a) # {}
              /\ FormatDMY(WhenOf(q.result, a)) = q.resp.GregorianDate
              /\ ClockOf(BareToken(q.resp.Timings[a])) < ClockOf(BareToken(q.resp.Timings[b]))
                    <=> WhenOf(q.result, a) < WhenOf(q.result, b)
        /\ \A now \in ParseNows : ParseTimes(q.resp, now) = q.result

\* parsed on another day than the payload's: Fajr at 12:30 and Dhuhr at
\* 12:05, two clock times of the same hour
C14_Witness ==
    /\ q.op = "ParseTimes"
    /\ q.resp.GregorianDate = <<"1", "5", "-", "0", "6", "-", "2", "0", "2", "4">>
    /\ FormatDMY(q.now) # q.resp.GregorianDate
    /\ "Fajr" \in DOMAIN q.resp.Timings
    /\ q.resp.Timings["Fajr"] = <<"1", "2", ":", "3", "0">>
    /\ q.resp.Timings["Dhuhr"] = <<"1", "2", ":", "0", "5">>
    /\ Named(q.result, "Fajr") # {}
    /\ Named(q.result, "Dhuhr") # {}

\* C15: when the Gregorian date of the payload is missing or is no valid
\* day-month-year, every event is placed on the current date (stated for
\* the rows with a well-formed token).
C15_BadDateMeansToday ==
    (q.op = "ParseTimes" /\ ~ValidDMY(q.resp.GregorianDate)) =>
        \A n \in GoodRows(q.resp) :
            /\ Named(q.result, n) # {}
            /\ FormatDMY(WhenOf(q.result, n)) = FormatDMY(q.now)

\* C16: a raw string with a parenthesized annotation, after white space or
\* attached, gives its name the event the bare token "12:30" gives it.
C16_AnnotationStripped ==
    q.op = "ParseTimes" =>
        \A n \in RowsOf(q.resp) :
            q.resp.Timings[n] \in AnnotatedTimes =>
                /\ Cardinality(Named(q.result, n)) = 1
                /\ LET bare == ParseTimes([q.resp EXCEPT !.Timings[n] = <<"1", "2", ":", "3", "0">>], q.now)
                   IN  /\ Named(bare, n) # {}
                       /\ WhenOf(q.result, n) = WhenOf(bare, n)

\* one row with the annotation attached, one with the annotation after a
\* space, one bare: three events at one instant
C16_Witness ==
    /\ q.op = "ParseTimes"
    /\ "Fajr" \in DOMAIN q.resp.Timings
    /\ q.resp.Timings["Fajr"] = <<"1", "2", ":", "3", "0", "(", "+", "0", "3", ")">>
    /\ q.resp.Timings["Dhuhr"] = <<"1", "2", ":", "3", "0", " ", "(", "+", "0", "3", ")">>
    /\ q.resp.Timings["Isha"] = <<"1", "2", ":", "3", "0">>
    /\ Len(q.result) = 3
    /\ q.result[1].When = q.result[3].When

\* s is the decimal numeral of n, with `width` digits at least
IsNumeral(s, n, width) ==
    /\ Len(s) >= width
    /\ Len(s) >= 1
    /\ \A i \in 1..Len(s) : IsDigit(s[i])
    /\ (Len(s) > width => s[1] # "0")
    /\ DecimalVal(s, 0) = n

\* C20: HumanDuration renders a negative duration as "passed", one under 60
\* minutes as "<N>m" with N its whole minutes, one whose whole minutes are
\* full hours as "<H>h", and any other as "<H>h<MM>m" with H = minutes div 60
\* and MM = minutes mod 60 in two digits.
C20_HumanDurationRendering ==
    q.op = "HumanDuration" =>
        LET r    == q.result
            mins == q.d \div Minute
        IN  /\ q.d < 0 => r = <<"p", "a", "s", "s", "e", "d">>
            /\ (q.d >= 0 /\ mins < 60) =>
                  /\ r[Len(r)] = "m"
                  /\ IsNumeral(SubSeq(r, 1, Len(r) - 1), mins, 1)
            /\ (mins >= 60 /\ mins % 60 = 0) =>
                  /\ r[Len(r)] = "h"
                  /\ IsNumeral(SubSeq(r, 1, Len(r) - 1), mins \div 60, 1)
            /\ (mins >= 60 /\ mins % 60 # 0) =>
                  /\ Len(r) >= 5
                  /\ r[Len(r)] = "m"
                  /\ r[Len(r) - 3] = "h"
                  /\ IsNumeral(SubSeq(r, Len(r) - 2, Len(r) - 1), mins % 60, 2)
                  /\ Len(SubSeq(r, Len(r) - 2, Len(r) - 1)) = 2
                  /\ IsNumeral(SubSeq(r, 1, Len(r) - 4), mins \div 60, 1)
            /\ q.d = 0 - 5 * Minute => r = <<"p", "a", "s", "s", "e", "d">>
            /\ q.d = 45 * Minute => r = <<"4", "5", "m">>
            /\ q.d = 120 * Minute => r = <<"2", "h">>
            /\ q.d = 125 * Minute => r = <<"2", "h", "0", "5", "m">>

\* 125 minutes and a half second render as "2h05m"
C20_Witness ==
    /\ q.op = "HumanDuration"
    /\ q.d = 125 * Minute + 1
    /\ q.result = <<"2", "h", "0", "5", "m">>

\* the record the run printed
Printed == q.stdout[Len(q.stdout)]

\* the parsed events of the response that are later than now
LaterEvents(resp, now) ==
    LET events == ParseTimes(resp, now)
    IN  {events[i] : i \in LaterThan(events, now)}

\* C17: when the status-line view has no event (nothing parsed, or nothing
\* later than now), the text of the record is the "no upcoming prayer"
\* fallback and a line of the tooltip repeats it.
C17_FallbackIsNoUpcomingPrayer ==
    (q.op = "waybar" /\ q.outcome = "built" /\ LaterEvents(q.resp, q.now) = {}) =>
        /\ Printed.Text = NoUpcomingPrayer
        /\ \E i \in 1..Len(Printed.Tooltip) : Printed.Tooltip[i] = NoUpcomingPrayer

\* C18: whatever config loading, location validation and the fetch give, the
\* status-line command prints exactly one record and exits with code 0; an
\* error is reported in the text and the tooltip of that record.
C18_WaybarOneRecordExitZero ==
    q.op = "waybar" =>
        /\ q.pc # "exited" => (q.stdout = <<>> /\ q.exit = -1)
        /\ q.pc = "exited" =>
              /\ Len(q.stdout) = 1
              /\ q.exit = 0
              /\ q.outcome \in {"config_error", "no_location", "fetch_error"} =>
                    /\ Printed.Text[1] \in {"adhanctl: config error",
                                           "adhanctl: no location", "adhanctl: error"}
                    /\ Printed.Tooltip # <<>>

\* the fetch failed: the run ended with the error record
C18_Witness ==
    /\ q.op = "waybar"
    /\ q.pc = "exited"
    /\ q.outcome = "fetch_error"
    /\ Printed.Text = <<"adhanctl: error">>

\* C19: when a next event exists the text is "<name> <clock>" with the short
\* flag and "<name> <clock> (<remaining>)" without it, for the event
\* NextEventAfter returns for now; the clock of a 24-hour rendering is the
\* token of the payload, and Dhuhr at 12:30 seen from 10:00 reads
\* "Dhuhr 12:30 (2h30m)".
C19_NextEventText ==
    (q.op = "waybar" /\ q.outcome = "built" /\ LaterEvents(q.resp, q.now) # {}) =>
        LET next  == NextEventAfter(ParseTimes(q.resp, q.now), q.now)
            shown == FormatTime(next.When, q.ampm)
            head  == <<next.Name, " ">> \o shown
        IN  /\ next \in LaterEvents(q.resp, q.now)
            /\ \A e \in LaterEvents(q.resp, q.now) : next.When <= e.When
            /\ q.short => Printed.Text = head
            /\ ~q.short => Printed.Text =
                    head \o <<" ", "(">> \o HumanDuration(next.When - q.now) \o <<")">>
            /\ ~q.ampm => shown = BareToken(q.resp.Timings[next.Name])
            /\ (q.now = TimeDate(2024, 6, 15, 10, 0) /\ ~q.short /\ ~q.ampm) =>
                    Printed.Text = <<"Dhuhr", " ", "1", "2", ":", "3", "0", " ", "(",
                                     "2", "h", "3", "0", "m", ")">>

\* the short flag comes from the --short argument alone, and the next event
\* is Fajr in the 12-hour rendering
C19_Witness ==
    /\ q.op = "waybar"
    /\ q.outcome = "built"
    /\ q.argShort /\ ~q.cfgShort
    /\ Printed.Text = <<"Fajr", " ", "0", "5", ":", "1", "2", " ", "A", "M">>

\* the window of main.go:379-388 stated on the parsed events
InWindow(events, now) ==
    {EventOf(events[i]) : i \in {j \in 1..Len(events) :
        now < events[j].When /\ events[j].When < now + 24 * Hour}}

\* C21: when the fetch succeeds and the write to the cache fails, the cycle
\* goes on as after a successful write: the fetched payload is parsed, its
\* upcoming events are armed, the cache is left as it was, and the daemon is
\* back at its select with no error.
C21_SetFailureIgnored ==
    [][(pc = "fetch" /\ last'.n = cycle /\ last' # last /\ ~ctxDone /\ cache' = cache)
          => /\ last'.outcome \in {"armed", "empty"}
             /\ last'.resp \in Responses(params.Date)
             /\ last'.events = ParseTimes(last'.resp, clock)
             /\ {EventOf(t) : t \in timers' \ timers} \subseteq InWindow(last'.events, clock)
             /\ \A e \in InWindow(last'.events, clock) :
                    \E t \in timers' : EventOf(t) = e /\ t.cycle = cycle
             /\ pc' = "select"]_vars

\* with a TTL set, the write of a fetched response failed, the cache is
\* empty, and the cycle has armed a timer
C21_Witness ==
    /\ ttl > 0
    /\ last.n = cycle
    /\ last.outcome = "armed"
    /\ ~last.hit
    /\ ~last.setOk
    /\ cache = {}
    /\ last.armed # {}
    /\ pc = "select"

\* C22: once the termination signal has been delivered no further refresh
\* cycle is started, also when a tick is pending at the moment of the signal.
C22_NoCycleAfterSignal ==
    [][ctxDone => cycle' = cycle]_vars

\* the two states of the daemon: waiting in the select of main.go:396, and
\* inside scheduleEvents
Idle == pc = "select"
Refreshing == pc \in {"schedule", "fetch", "backoff"}

\* C23: the running daemon is in exactly one of Idle and Refreshing; a refresh
\* cycle starts only when none is in progress and the previous one (the
\* startup refresh first) has ended; a tick that elapses during a refresh
\* starts nothing; timers are armed only by the step that ends a cycle, from
\* the events parsed in that cycle.
C23_CyclesDoNotOverlap ==
    [][/\ ProcessAlive' => (Idle' # Refreshing')
       /\ (cycle' # cycle) =>
              /\ cycle' = cycle + 1
              /\ ~Refreshing
              /\ Refreshing'
              /\ last.n = cycle
       /\ (Refreshing /\ tickPending' # tickPending) =>
              /\ tickPending'
              /\ pc' = pc
              /\ cycle' = cycle
       /\ (timers' \ timers # {}) =>
              /\ Refreshing
              /\ Idle'
              /\ last'.n = cycle
              /\ last'.events = ParseTimes(last'.resp, clock)
              /\ \A t \in timers' \ timers :
                     /\ t.cycle = cycle
                     /\ \E i \in 1..Len(last'.events) : EventOf(last'.events[i]) = EventOf(t)
      ]_vars

\* a tick has elapsed while the startup refresh is still waiting between two
\* attempts of its fetch
C23_Witness ==
    /\ pc = "backoff"
    /\ tickPending
    /\ cycle = 1
    /\ last.n = 0
    /\ ~ctxDone

\* the wait that follows the failed attempt of index i (from 0): 500 ms
\* doubled i times, at most 8 s
RECURSIVE WaitAfter(_)
WaitAfter(i) ==
    IF i = 0 THEN (Second \div 2)
    ELSE IF 2 * WaitAfter(i - 1) > 8 * Second THEN 8 * Second
         ELSE 2 * WaitAfter(i - 1)

\* C24: fetchWithRetries makes at most MaxRetries = 6 attempts; a successful
\* attempt ends the fetch at once with its response; a failed attempt is
\* followed by a wait of 500 ms doubled per failure and never above 8 s, which
\* elapses in full before the next attempt; the fetch ends in an error only
\* after the sixth failure or on a cancelled context, and once the context is
\* cancelled it never ends in a success.
C24_BoundedRetriesWithBackoff ==
    [][/\ pc' \in {"fetch", "backoff"} => attempt' \in 0..(6 - 1)
       /\ (pc = "fetch" /\ pc' = "backoff") =>
              /\ backoffUntil' - clock = WaitAfter(attempt)
              /\ backoffUntil' - clock >= (Second \div 2)
              /\ backoffUntil' - clock <= 8 * Second
              /\ attempt' = attempt
       /\ (pc = "backoff" /\ pc' = "fetch") =>
              /\ clock >= backoffUntil
              /\ attempt' = attempt + 1
       /\ (pc = "fetch" /\ pc' \notin {"fetch", "backoff"}) =>
              /\ last'.n = cycle
              /\ last'.outcome \in {"armed", "empty"}
              /\ last'.resp \in Responses(params.Date)
              /\ ~ctxDone
              /\ attempt' = attempt
       /\ (pc = "backoff" /\ pc' \notin {"fetch", "backoff"}) =>
              /\ last'.n = cycle
              /\ last'.outcome = "fetch_error"
              /\ last'.resp = "none"
              /\ ctxDone \/ (attempt = 6 - 1 /\ clock >= backoffUntil)
      ]_vars

\* six attempts have failed with no signal, and the cycle has ended in the
\* fetch error
C24_Witness ==
    /\ ~ctxDone
    /\ attempt = 6
    /\ last.n = cycle
    /\ last.outcome = "fetch_error"
    /\ pc = "select"

\* a step of the daemon's main goroutine, and a call of fetchWithCache
MainMoves == pc' # pc \/ last' # last
FetchWithCacheReturns ==
    q.op = "cache" /\ q'.op = "cache" /\ q.call.name = "none"
        /\ q'.call.name = "fetchWithCache"

\* C25: fetch-through-cache, in the daemon's cycle and in fetchWithCache: on
\* a hit the network is not fetched, the cached payload is the result and the
\* cache is unchanged; on a miss the network is fetched; the cache is written
\* only after a fetch that succeeded, for the request's key; a fetch that
\* failed leaves the cache unchanged and the result is the error.
C25_FetchThroughCache ==
    [][/\ (pc = "schedule" /\ MainMoves) =>
              IF CacheGet(cache, ttl, buildParams, clock).ok
              THEN /\ pc' \notin {"fetch", "backoff"}
                   /\ last'.hit
                   /\ last'.resp = CacheGet(cache, ttl, buildParams, clock).resp
                   /\ cache' = cache
              ELSE /\ pc' = "fetch"
                   /\ cache' = cache
       /\ (pc # "query" /\ cache' # cache) =>
              /\ pc = "fetch"
              /\ last'.outcome \in {"armed", "empty"}
              /\ ~last'.hit
              /\ cache' = CacheSet(cache, params, last'.resp, clock)
       /\ (pc # "query" /\ last' # last /\ last'.outcome = "fetch_error") =>
              /\ cache' = cache
              /\ last'.resp = "none"
       /\ FetchWithCacheReturns =>
              \E got \in {CacheGetFile(q.files, q.TTL, q'.call.params, q.now,
                                       q'.call.readOk)} :
                 /\ got.ok =>
                        /\ ~q'.call.network
                        /\ ~q'.call.err
                        /\ q'.call.resp = got.resp
                        /\ q'.files = q.files
                 /\ ~got.ok => q'.call.network
                 /\ q'.files # q.files =>
                        /\ q'.call.network
                        /\ ~q'.call.err
                        /\ \E outcome \in SetOutcomes :
                               q'.files = CacheSetFile(q.files, q'.call.params,
                                              q'.call.resp, q.now, outcome).files
                 /\ q'.call.err =>
                        /\ q'.call.network
                        /\ q'.call.resp = "none"
                        /\ q'.files = q.files
      ]_vars

\* fetchWithCache has returned the payload of a fresh cache file without a
\* fetch
C25_Witness ==
    /\ q.op = "cache"
    /\ q.call.name = "fetchWithCache"
    /\ ~q.call.network
    /\ ~q.call.err
    /\ q.call.resp \in CacheResponses
    /\ \E f \in q.files : f.path = CacheFilePath(q.call.params)

\* the same location, method, school and date
SameKey(a, b) ==
    /\ a.City = b.City
    /\ a.Country = b.Country
    /\ a.Latitude = b.Latitude
    /\ a.Longitude = b.Longitude
    /\ a.Method = b.Method
    /\ a.School = b.School
    /\ CivilOf(a.Date) = CivilOf(b.Date)

\* the same file of the cache directory
SamePath(a, b) == CacheFilePath(a) = CacheFilePath(b)

\* what a returned Get has to be, for a relation Same between the parameters
\* of a Set and of a Get: a hit is the payload of a Set with the Same
\* parameters no older than the TTL; a Get with the Same parameters as the one
\* Set, no later than the TTL after it, is a hit; a Get is a miss when every
\* Set with the Same parameters is older than the TTL, and when the TTL is not
\* positive
GetAfterSet(Same(_, _)) ==
    (q.op = "cache" /\ q.call.name = "Get") =>
        /\ q.call.ok =>
               \E s \in q.stored :
                  /\ Same(s.params, q.call.params)
                  /\ q.call.resp = s.resp
                  /\ q.now - s.at <= q.TTL
        /\ \A s \in q.stored :
               (/\ Same(s.params, q.call.params)
                /\ q.writes = 1
                /\ q.call.readOk
                /\ q.TTL > 0
                /\ q.now - s.at <= q.TTL)
                   => (q.call.ok /\ q.call.resp = s.resp)
        /\ (\A s \in q.stored : Same(s.params, q.call.params) => q.now - s.at > q.TTL)
               => ~q.call.ok
        /\ q.TTL <= 0 => ~q.call.ok

\* C26: Get returns a hit only for an entry stored under the same location,
\* method, school and date whose age is at most the TTL: after Set(params, r)
\* a Get(params) within the TTL returns r, a Get after the TTL is a miss, a
\* Get with a TTL <= 0 is a miss, and a Get with another date or location
\* never returns r.
C26_HitOnlySameKeyWithinTTL == GetAfterSet(SameKey)

\* the same with the file name in the place of the key
CacheHitSamePathWithinTTL == GetAfterSet(SamePath)

\* a Get has returned the payload that a Set stored for another location
CacheHitOfAnotherLocation ==
    /\ q.op = "cache"
    /\ q.call.name = "Get"
    /\ q.call.ok
    /\ \E s \in q.stored :
          /\ q.call.resp = s.resp
          /\ SamePath(s.params, q.call.params)
          /\ s.params.City # q.call.params.City

=============================================================================
